---- MODULE Spec2Model ----
(***************************************************************************)
(* rubiks_trainer: the page state machine of src/app.rs (Setup = browsing  *)
(* the catalog and toggling algorithm sets, Train = drilling scrambles)    *)
(* over the catalog data model of src/db.rs.                               *)
(*                                                                         *)
(* The tree cursor is a tui_tree_widget TreeState; the three methods the   *)
(* program calls (key_up, key_down, toggle_selected), the selection set by *)
(* select, and the list of visible identifier paths the widget records     *)
(* when it is rendered are modelled at their call sites.                   *)
(*                                                                         *)
(* App::run hands handle_key two mutable references to the same App (one  *)
(* through a raw pointer).  The handler writes app.exit before it reads    *)
(* the page and writes app.page as its last access, so the accesses never  *)
(* overlap and every build runs them in program order; the actions below   *)
(* are that order.                                                         *)
(***************************************************************************)
EXTENDS Integers, Sequences, FiniteSets, TLC

VARIABLES
    db,                 \* App.db: the loaded catalog (AlgDB.entries), read-only
    page,               \* the variant of App.page: "Setup" or "Train"
    selected,           \* Setup.state.selected: path of identifiers of the cursor
    opened,             \* Setup.state.opened: set of identifier paths toggled open
    last_identifiers,   \* Setup.state: visible identifier paths at the last render
    last_biggest_index, \* Setup.state: index of the last visible item at the last render
    algset_map,         \* Setup.algset_map: Identifier -> AlgInfo
    algs,               \* Train.algs: Vec<&AlgSet>, references into db
    scramble,           \* Train.scramble: the displayed text
    exit,               \* App.exit
    key,                \* the key code read in the current loop iteration
    page_before,        \* the variant of App.page when that key was read
    pc,                 \* position of App::run: "draw", "read", "done", "panicked"
    call,               \* a function of src/db.rs under call and its argument
    ret                 \* what the call returned

vars == <<db, page, selected, opened, last_identifiers, last_biggest_index,
          algset_map, algs, scramble, exit, key, page_before, pc, call, ret>>

(***************************************************************************)
(* Bounds of the model.                                                    *)
(***************************************************************************)
\* Largest number of nodes (directories and files) of a catalog.
MaxNodes == 3

\* Largest number of characters of a line of a file and of a token.
MaxTextLen == 3

(***************************************************************************)
(* src/db.rs: Movement                                                     *)
(***************************************************************************)
Movement ==
    {"R", "U", "F", "L", "B", "X", "Y",
     "RP", "UP", "FP", "LP", "BP", "XP", "YP",
     "R2", "U2", "F2", "L2", "B2", "X2", "Y2"}

\* Mutant of inv: the move itself.
inv_same(m) == m

\* Mutant of inv: the inverse of a prime move is the move itself.
inv_prime_fixed(m) ==
    CASE m = "R" -> "RP" [] m = "U" -> "UP" [] m = "F" -> "FP" [] m = "L" -> "LP"
      [] m = "B" -> "BP" [] m = "X" -> "XP" [] m = "Y" -> "YP"
      [] OTHER -> m

inv(m) ==
    CASE m = "R" -> "RP" [] m = "U" -> "UP" [] m = "F" -> "FP" [] m = "L" -> "LP"
      [] m = "B" -> "BP" [] m = "X" -> "XP" [] m = "Y" -> "YP"
      [] m = "RP" -> "R" [] m = "UP" -> "U" [] m = "FP" -> "F" [] m = "LP" -> "L"
      [] m = "BP" -> "B" [] m = "XP" -> "X" [] m = "YP" -> "Y"
      [] m = "R2" -> "R2" [] m = "U2" -> "U2" [] m = "F2" -> "F2" [] m = "L2" -> "L2"
      [] m = "B2" -> "B2" [] m = "X2" -> "X2" [] m = "Y2" -> "Y2"

as_text(m) ==
    CASE m = "R" -> "R" [] m = "U" -> "U" [] m = "F" -> "F" [] m = "L" -> "L"
      [] m = "B" -> "B" [] m = "X" -> "x" [] m = "Y" -> "y"
      [] m = "RP" -> "R'" [] m = "UP" -> "U'" [] m = "FP" -> "F'" [] m = "LP" -> "L'"
      [] m = "BP" -> "B'" [] m = "XP" -> "x'" [] m = "YP" -> "y'"
      [] m = "R2" -> "R2" [] m = "U2" -> "U2" [] m = "F2" -> "F2" [] m = "L2" -> "L2"
      [] m = "B2" -> "B2" [] m = "X2" -> "x2" [] m = "Y2" -> "y2"

(***************************************************************************)
(* src/db.rs: AlgSet, AlgEntry, AlgDB.  The catalogs are the values        *)
(* AlgDB::load can return: every file loads to an AlgSet with enabled =    *)
(* TRUE, every directory to a Group of its entries.                        *)
(***************************************************************************)
AlgSet(name, scrambles) == [name |-> name, algs |-> scrambles, enabled |-> TRUE]

\* The files of the catalogs: a file without algorithm lines, a file of one
\* algorithm, a file of two algorithms.
AlgFiles ==
    { AlgSet("none", <<>>),
      AlgSet("RU", << <<"R", "U">> >>),
      AlgSet("PLL", << <<"R2", "X">>, <<"YP", "L", "B2">> >>) }

Algs(name, alg_set) == [tag |-> "Algs", name |-> name, algset |-> alg_set]

Group(name, entries) == [tag |-> "Group", name |-> name, entries |-> entries]

RECURSIVE Entries(_)
RECURSIVE Entry(_)
\* The directory entries of n nodes in all: one AlgEntry per file or directory.
Entry(n) ==
    IF n = 1
    THEN {Algs(f.name, f) : f \in AlgFiles} \cup {Group("OLL", <<>>)}
    ELSE {Group("OLL", es) : es \in Entries(n - 1)}

\* The directory listings of n nodes in all.
Entries(n) ==
    IF n = 0
    THEN {<<>>}
    ELSE UNION { { <<e>> \o es : e \in Entry(k), es \in Entries(n - k) } : k \in 1..n }

\* The catalog of one directory OLL holding one file OLL1 of one algorithm.
OLLCatalog ==
    << Group("OLL", << Algs("OLL1", AlgSet("OLL1",
           << <<"R", "U", "RP", "UP", "RP", "F", "R", "FP">> >>)) >>) >>

Catalogs == UNION { Entries(n) : n \in 0..MaxNodes } \cup {OLLCatalog}

\* A reference &AlgSet into db is the position of its leaf: the path of
\* 1-based indexes from db.entries down to the AlgEntry::Algs holding it.
RECURSIVE AlgSetAt(_, _)
AlgSetAt(entries, path) ==
    IF Len(path) = 1
    THEN entries[path[1]].algset
    ELSE AlgSetAt(entries[path[1]].entries, Tail(path))

(***************************************************************************)
(* src/db.rs: Movement::from_text, AlgSet::parse_scramble and              *)
(* AlgSet::load_from.  A text is a sequence of characters, each a string   *)
(* of one character; "u2019" is the right single quotation mark.           *)
(***************************************************************************)
RECURSIVE Str(_)
\* The string of a sequence of characters.
Str(chars) == IF chars = <<>> THEN "" ELSE chars[1] \o Str(Tail(chars))

\* Mutant of from_text: the spellings of the double moves with an
\* apostrophe are not accepted.
from_text_strict(text) ==
    CASE text = "R" -> "R" [] text = "U" -> "U" [] text = "F" -> "F" [] text = "L" -> "L"
      [] text = "B" -> "B" [] text = "x" -> "X" [] text = "y" -> "Y"
      [] text = "R'" -> "RP" [] text = "U'" -> "UP" [] text = "F'" -> "FP"
      [] text = "L'" -> "LP" [] text = "B'" -> "BP" [] text = "x'" -> "XP"
      [] text = "y'" -> "YP"
      [] text = "R2" -> "R2" [] text = "U2" -> "U2" [] text = "F2" -> "F2"
      [] text = "L2" -> "L2" [] text = "B2" -> "B2" [] text = "x2" -> "X2"
      [] text = "y2" -> "Y2"
      [] OTHER -> "None"

\* Movement::from_text: Some(movement) as the movement, None as "None".
from_text(text) ==
    CASE text = "R" -> "R" [] text = "U" -> "U" [] text = "F" -> "F" [] text = "L" -> "L"
      [] text = "B" -> "B" [] text = "x" -> "X" [] text = "y" -> "Y"
      [] text = "R'" -> "RP" [] text = "U'" -> "UP" [] text = "F'" -> "FP"
      [] text = "L'" -> "LP" [] text = "B'" -> "BP" [] text = "x'" -> "XP"
      [] text = "y'" -> "YP"
      [] text = "R2" -> "R2" [] text = "U2" -> "U2" [] text = "F2" -> "F2"
      [] text = "L2" -> "L2" [] text = "B2" -> "B2" [] text = "x2" -> "X2"
      [] text = "y2" -> "Y2"
      [] text = "R2'" -> "R2" [] text = "U2'" -> "U2" [] text = "F2'" -> "F2"
      [] text = "L2'" -> "L2" [] text = "B2'" -> "B2" [] text = "x2'" -> "X2"
      [] text = "y2'" -> "Y2"
      [] OTHER -> "None"

Ok(value) == [tag |-> "Ok", value |-> value]

\* Err(RubiksError::InvalidMovement(token))
InvalidMovement(token) == [tag |-> "Err", error |-> "InvalidMovement", token |-> token]

NotParenthesis(c) == c # "(" /\ c # ")"

NonEmptyToken(tk) == Len(tk) > 0

\* text.split(' '): the pieces between the spaces, empty ones included; i is
\* the next character and piece the piece being read.
RECURSIVE SplitSpace(_, _, _)
SplitSpace(text, i, piece) ==
    IF i > Len(text)
    THEN <<piece>>
    ELSE IF text[i] = " "
         THEN <<piece>> \o SplitSpace(text, i + 1, <<>>)
         ELSE SplitSpace(text, i + 1, Append(piece, text[i]))

\* Mutant of PushMovements: a token that is no movement is passed over.
RECURSIVE PushMovementsLenient(_, _, _)
PushMovementsLenient(tks, i, moves) ==
    IF i > Len(tks)
    THEN Ok(moves)
    ELSE IF from_text(Str(tks[i])) = "None"
         THEN PushMovementsLenient(tks, i + 1, moves)
         ELSE PushMovementsLenient(tks, i + 1, Append(moves, from_text(Str(tks[i]))))

\* The loop of parse_scramble over the tokens from the i-th on.
RECURSIVE PushMovements(_, _, _)
PushMovements(tks, i, moves) ==
    IF i > Len(tks)
    THEN Ok(moves)
    ELSE IF from_text(Str(tks[i])) = "None"
         THEN InvalidMovement(Str(tks[i]))
         ELSE PushMovements(tks, i + 1, Append(moves, from_text(Str(tks[i]))))

parse_scramble(text) ==
    PushMovements(SelectSeq(SplitSpace(SelectSeq(text, NotParenthesis), 1, <<>>),
                            NonEmptyToken),
                  1, <<>>)

\* line.split('#').nth(0): the line up to its first '#'.
RECURSIVE BeforeHash(_)
BeforeHash(line) ==
    IF line = <<>> \/ line[1] = "#"
    THEN <<>>
    ELSE <<line[1]>> \o BeforeHash(Tail(line))

\* The map over the characters: the right single quotation mark becomes '.
Apostrophes(line) == [i \in DOMAIN line |-> IF line[i] = "u2019" THEN "'" ELSE line[i]]

is_whitespace(line) == \A i \in DOMAIN line : line[i] = " "

\* The loop of load_from over the lines from the i-th on.
RECURSIVE LoadLines(_, _, _)
LoadLines(lines, i, scrambles) ==
    IF i > Len(lines)
    THEN Ok(scrambles)
    ELSE LET line == Apostrophes(BeforeHash(lines[i]))
         IN  IF is_whitespace(line)
             THEN LoadLines(lines, i + 1, scrambles)
             ELSE IF parse_scramble(line).tag = "Err"
                  THEN parse_scramble(line)
                  ELSE LoadLines(lines, i + 1, Append(scrambles, parse_scramble(line).value))

\* AlgSet::load_from on a file that can be read, given as its lines.
load_from(name, lines) ==
    IF LoadLines(lines, 1, <<>>).tag = "Err"
    THEN LoadLines(lines, 1, <<>>)
    ELSE Ok(AlgSet(name, LoadLines(lines, 1, <<>>).value))

(***************************************************************************)
(* src/app.rs: identifiers and App::new                                    *)
(***************************************************************************)
START_BUTTON_ID == 6969

EmptyMap == << >>

\* HashMap::insert: the value under an existing key is replaced.
MapInsert(map, k, v) == [x \in (DOMAIN map) \cup {k} |-> IF x = k THEN v ELSE map[x]]

AlgInfo(algset, enabled) == [algset |-> algset, enabled |-> enabled]

\* Mutant of new_parse_entries: the children of a Group are numbered from the
\* Group's own identifier on.
RECURSIVE new_parse_entries_late(_, _, _, _, _)
new_parse_entries_late(entries, i, path, id, map) ==
    IF i > Len(entries)
    THEN [id |-> id, algset_map |-> map]
    ELSE IF entries[i].tag = "Group"
         THEN LET sub == new_parse_entries_late(entries[i].entries, 1, path \o <<i>>,
                                                id, map)
              IN  new_parse_entries_late(entries, i + 1, path, sub.id + 1, sub.algset_map)
         ELSE new_parse_entries_late(entries, i + 1, path, id + 1,
                                     MapInsert(map, id, AlgInfo(path \o <<i>>, FALSE)))

\* Mutant of new_parse_entries: a Group takes one identifier.
RECURSIVE new_parse_entries_single(_, _, _, _, _)
new_parse_entries_single(entries, i, path, id, map) ==
    IF i > Len(entries)
    THEN [id |-> id, algset_map |-> map]
    ELSE IF entries[i].tag = "Group"
         THEN LET sub == new_parse_entries_single(entries[i].entries, 1, path \o <<i>>,
                                                  id + 1, map)
              IN  new_parse_entries_single(entries, i + 1, path, sub.id, sub.algset_map)
         ELSE new_parse_entries_single(entries, i + 1, path, id + 1,
                                       MapInsert(map, id, AlgInfo(path \o <<i>>, FALSE)))

\* parse_entries of App::new, from the i-th entry of the directory at `path` on:
\* the id counter and the map after the walk.
RECURSIVE new_parse_entries(_, _, _, _, _)
new_parse_entries(entries, i, path, id, map) ==
    IF i > Len(entries)
    THEN [id |-> id, algset_map |-> map]
    ELSE IF entries[i].tag = "Group"
         THEN LET sub == new_parse_entries(entries[i].entries, 1, path \o <<i>>, id + 1, map)
              IN  new_parse_entries(entries, i + 1, path, sub.id + 1, sub.algset_map)
         ELSE new_parse_entries(entries, i + 1, path, id + 1,
                                MapInsert(map, id, AlgInfo(path \o <<i>>, FALSE)))

(***************************************************************************)
(* src/app.rs: AppPage::draw, Setup page.  The outline handed to the tree  *)
(* widget and the paths the widget shows.                                  *)
(***************************************************************************)
TreeItem(identifier, text, children) ==
    [identifier |-> identifier, text |-> text, children |-> children]

\* TreeItem::new, TreeItem::add_child and Tree::new refuse siblings that share
\* an identifier; the program unwraps their results.
UniqueIdentifiers(items) ==
    \A i, j \in DOMAIN items : items[i].identifier = items[j].identifier => i = j

\* Mutant of draw_parse_entries: a Group takes one identifier.
RECURSIVE draw_parse_entries_single(_, _, _, _)
draw_parse_entries_single(entries, i, id, map) ==
    IF i > Len(entries)
    THEN [id |-> id, items |-> <<>>, ok |-> TRUE]
    ELSE IF entries[i].tag = "Group"
         THEN LET sub  == draw_parse_entries_single(entries[i].entries, 1, id + 1, map)
                  rest == draw_parse_entries_single(entries, i + 1, sub.id, map)
              IN  [id    |-> rest.id,
                   items |-> <<TreeItem(id, entries[i].name, sub.items)>> \o rest.items,
                   ok    |-> sub.ok /\ UniqueIdentifiers(sub.items) /\ rest.ok]
         ELSE LET rest == draw_parse_entries_single(entries, i + 1, id + 1, map)
                  found == id \in DOMAIN map
                  text == IF found /\ map[id].enabled
                          THEN "|-- " \o entries[i].name
                          ELSE entries[i].name
              IN  [id    |-> rest.id,
                   items |-> <<TreeItem(id, text, <<>>)>> \o rest.items,
                   ok    |-> found /\ rest.ok]

\* parse_entries of AppPage::draw, from the i-th entry on: the id counter, the
\* items, and whether every unwrap on the way succeeded.
RECURSIVE draw_parse_entries(_, _, _, _)
draw_parse_entries(entries, i, id, map) ==
    IF i > Len(entries)
    THEN [id |-> id, items |-> <<>>, ok |-> TRUE]
    ELSE IF entries[i].tag = "Group"
         THEN LET sub  == draw_parse_entries(entries[i].entries, 1, id + 1, map)
                  rest == draw_parse_entries(entries, i + 1, sub.id + 1, map)
              IN  [id    |-> rest.id,
                   items |-> <<TreeItem(id, entries[i].name, sub.items)>> \o rest.items,
                   ok    |-> sub.ok /\ UniqueIdentifiers(sub.items) /\ rest.ok]
         ELSE LET rest == draw_parse_entries(entries, i + 1, id + 1, map)
                  found == id \in DOMAIN map
                  text == IF found /\ map[id].enabled
                          THEN "|-- " \o entries[i].name
                          ELSE entries[i].name
              IN  [id    |-> rest.id,
                   items |-> <<TreeItem(id, text, <<>>)>> \o rest.items,
                   ok    |-> found /\ rest.ok]

\* The whole outline: the catalog's items and the trailing Start button.
Outline(entries, map) ==
    LET r == draw_parse_entries(entries, 1, 0, map)
    IN  [items |-> r.items \o <<TreeItem(START_BUTTON_ID, "Start", <<>>)>>,
         ok    |-> r.ok /\ UniqueIdentifiers(r.items
                                \o <<TreeItem(START_BUTTON_ID, "Start", <<>>)>>)]

\* The widget's flatten: the identifier paths of the visible items, the
\* children of an item being visible when its path is in the opened set.
RECURSIVE Flatten(_, _, _, _)
Flatten(open, items, i, current) ==
    IF i > Len(items)
    THEN <<>>
    ELSE LET child_identifier == current \o <<items[i].identifier>>
             child_result == IF child_identifier \in open
                             THEN Flatten(open, items[i].children, 1, child_identifier)
                             ELSE <<>>
         IN  <<child_identifier>> \o child_result \o Flatten(open, items, i + 1, current)

(***************************************************************************)
(* TreeState as the program uses it.                                       *)
(***************************************************************************)
Min(a, b) == IF a <= b THEN a ELSE b

\* Position (0-based) of the cursor among the paths of the last render, or -1
\* standing for None.
CurrentIndex(identifiers, current) ==
    IF \E i \in DOMAIN identifiers : identifiers[i] = current
    THEN (CHOOSE i \in DOMAIN identifiers :
              /\ identifiers[i] = current
              /\ \A j \in DOMAIN identifiers : identifiers[j] = current => i <= j) - 1
    ELSE 0 - 1

\* select_relative: the path at new_index clamped to the last index, the empty
\* path when there is none.
SelectRelative(identifiers, biggest, new_index) ==
    LET clamped == Min(new_index, biggest)
    IN  IF clamped + 1 \in DOMAIN identifiers THEN identifiers[clamped + 1] ELSE <<>>

\* key_up: one item up, saturating at the first; the last item when the
\* cursor is on nothing visible.
key_up(identifiers, biggest, current) ==
    LET c == CurrentIndex(identifiers, current)
    IN  SelectRelative(identifiers, biggest,
                       IF c < 0 THEN biggest ELSE IF c = 0 THEN 0 ELSE c - 1)

\* key_down: one item down, clamped to the last; the first item when the
\* cursor is on nothing visible.
key_down(identifiers, biggest, current) ==
    LET c == CurrentIndex(identifiers, current)
    IN  SelectRelative(identifiers, biggest, IF c < 0 THEN 0 ELSE c + 1)

\* Mutant of toggle_selected: the cursor's path is opened and never closed.
toggle_selected_opens(open, current) ==
    IF current = <<>> THEN open ELSE open \cup {current}

\* toggle_selected: the cursor's path leaves the opened set if it is in it and
\* enters it otherwise; nothing happens when the cursor is on nothing.
toggle_selected(open, current) ==
    IF current = <<>>
    THEN open
    ELSE IF current \in open THEN open \ {current} ELSE open \cup {current}

(***************************************************************************)
(* src/app.rs: get_scramble                                                *)
(***************************************************************************)
\* The algorithms of one set, then of the next: the vector `movements` that
\* the two loops fill, for the sets from the i-th on.
RECURSIVE Movements(_, _, _)
Movements(entries, algsets, i) ==
    IF i > Len(algsets)
    THEN <<>>
    ELSE AlgSetAt(entries, algsets[i]).algs \o Movements(entries, algsets, i + 1)

\* Mutant of ScrambleText: the moves are written first to last.
RECURSIVE ScrambleTextForward(_, _, _)
ScrambleTextForward(movements, i, text) ==
    IF i >= Len(movements)
    THEN text
    ELSE LET movement == movements[i + 1]
             pushed == text \o as_text(inv(movement))
         IN  ScrambleTextForward(movements, i + 1,
                                 IF i < Len(movements) - 1 THEN pushed \o " " ELSE pushed)

\* Mutant of ScrambleText: a space follows every move, the last one too.
RECURSIVE ScrambleTextTrailing(_, _, _)
ScrambleTextTrailing(movements, i, text) ==
    IF i >= Len(movements)
    THEN text
    ELSE ScrambleTextTrailing(movements, i + 1,
                              text \o as_text(inv(movements[Len(movements) - i])) \o " ")

\* The text loop over the chosen algorithm, reversed: i counts the moves
\* already written and text is what has been written.
RECURSIVE ScrambleText(_, _, _)
ScrambleText(movements, i, text) ==
    IF i >= Len(movements)
    THEN text
    ELSE LET movement == movements[Len(movements) - i]
             pushed == text \o as_text(inv(movement))
         IN  ScrambleText(movements, i + 1,
                          IF i < Len(movements) - 1 THEN pushed \o " " ELSE pushed)

\* Mutant of get_scramble: the choice always takes the first algorithm.
get_scramble_first(entries, algsets) ==
    LET movements == Movements(entries, algsets, 1)
    IN  { ScrambleText(movements[c], 0, "") : c \in DOMAIN movements \cap {1} }

\* The strings get_scramble can return, one per algorithm the random choice
\* can pick; none when the vector is empty, where the unwrap panics.
get_scramble(entries, algsets) ==
    LET movements == Movements(entries, algsets, 1)
    IN  { ScrambleText(movements[c], 0, "") : c \in DOMAIN movements }

(***************************************************************************)
(* src/app.rs: App::new and App::run                                       *)
(***************************************************************************)
NoKey == "none"

NoCall == [fn |-> "none", arg |-> "none"]

NoRet == [tag |-> "none"]

\* The key events read: one key code for each arm of handle_key, and one
\* that no arm names.
KeyCodes == {"Up", "Down", "Enter", "q", "Tab"}

Init ==
    /\ db \in Catalogs
    /\ page = "Setup"
    /\ selected = <<0>>
    /\ opened = {}
    /\ last_identifiers = <<>>
    /\ last_biggest_index = 0
    /\ algset_map = new_parse_entries(db, 1, <<>>, 0, EmptyMap).algset_map
    /\ algs = <<>>
    /\ scramble = ""
    /\ exit = FALSE
    /\ key = NoKey
    /\ page_before = NoKey
    /\ pc = "draw"
    /\ call = NoCall
    /\ ret = NoRet

\* terminal.draw: the Setup page renders the outline and the widget records
\* the visible paths; the Train page prints the scramble.
Draw ==
    /\ pc = "draw"
    /\ key' = NoKey
    /\ page_before' = NoKey
    /\ UNCHANGED <<db, page, selected, opened, algset_map, algs, scramble, exit, call, ret>>
    /\ IF page = "Setup"
       THEN LET outline == Outline(db, algset_map)
                visible == Flatten(opened, outline.items, 1, <<>>)
            IN  IF outline.ok
                THEN /\ last_identifiers' = visible
                     /\ last_biggest_index' = Len(visible) - 1
                     /\ pc' = "read"
                ELSE /\ UNCHANGED <<last_identifiers, last_biggest_index>>
                     /\ pc' = "panicked"
       ELSE /\ UNCHANGED <<last_identifiers, last_biggest_index>>
            /\ pc' = "read"

\* What every key event does besides its match arm: 'q' sets exit, and the
\* loop breaks after the handler when exit is set.
KeyRead(k) ==
    /\ pc = "read"
    /\ key' = k
    /\ page_before' = page
    /\ exit' = IF k = "q" THEN TRUE ELSE exit
    /\ UNCHANGED <<db, call, ret>>

\* Mutant of AfterKey: the loop goes on whatever exit is.
AfterKeyNoBreak == pc' = "draw"

AfterKey == pc' = IF exit' THEN "done" ELSE "draw"

\* An event that is not a key event: handle_key is not called.
NonKeyEvent ==
    /\ pc = "read"
    /\ pc' = IF exit THEN "done" ELSE "draw"
    /\ UNCHANGED <<db, page, selected, opened, last_identifiers, last_biggest_index,
                   algset_map, algs, scramble, exit, key, page_before, call, ret>>

(***************************************************************************)
(* src/app.rs: AppPage::handle_key                                         *)
(***************************************************************************)
SetupKeyUp(k) ==
    /\ KeyRead(k)
    /\ page = "Setup"
    /\ k \in {"Up", "k"}
    /\ selected' = key_up(last_identifiers, last_biggest_index, selected)
    /\ AfterKey
    /\ UNCHANGED <<page, opened, last_identifiers, last_biggest_index,
                   algset_map, algs, scramble>>

SetupKeyDown(k) ==
    /\ KeyRead(k)
    /\ page = "Setup"
    /\ k \in {"Down", "j"}
    /\ selected' = key_down(last_identifiers, last_biggest_index, selected)
    /\ AfterKey
    /\ UNCHANGED <<page, opened, last_identifiers, last_biggest_index,
                   algset_map, algs, scramble>>

\* Mutant of ToggleEnabled: the flag is left as it is.
ToggleEnabledNot(map, identifier) == map

\* Mutant of ToggleEnabled: the entry is switched on.
ToggleEnabledOn(map, identifier) ==
    [map EXCEPT ![identifier].enabled = TRUE]

\* algset.enabled = !algset.enabled
ToggleEnabled(map, identifier) ==
    [map EXCEPT ![identifier].enabled = ~map[identifier].enabled]

\* Mutant of EnabledAlgs: the filter on enabled is missing.
EnabledAlgsAll(map) ==
    { [i \in 1..Cardinality(DOMAIN map) |-> map[order[i]].algset] :
        order \in { f \in [1..Cardinality(DOMAIN map) -> DOMAIN map] :
                      \A i, j \in 1..Cardinality(DOMAIN map) : f[i] = f[j] => i = j } }

\* The vectors the collect over algset_map.values() can build: HashMap
\* iterates in an order of its own, so the enabled sets in any order.
EnabledAlgs(map) ==
    LET enabled == {id \in DOMAIN map : map[id].enabled}
    IN  { [i \in 1..Cardinality(enabled) |-> map[order[i]].algset] :
            order \in { f \in [1..Cardinality(enabled) -> enabled] :
                          \A i, j \in 1..Cardinality(enabled) : f[i] = f[j] => i = j } }

\* Mutant of HasAlgs: the test is missing.
HasAlgsAlways(new_algs) == TRUE

\* The test `algs.len() > 0`.
HasAlgs(new_algs) == Len(new_algs) > 0

\* app.page = AppPage::Train { algs, scramble }: the Setup page is dropped.
EnterTrain(new_algs, new_scramble) ==
    /\ page' = "Train"
    /\ algs' = new_algs
    /\ scramble' = new_scramble
    /\ selected' = <<>>
    /\ opened' = {}
    /\ last_identifiers' = <<>>
    /\ last_biggest_index' = 0
    /\ algset_map' = EmptyMap
    /\ AfterKey

\* The Start arm: nothing when no set is enabled, a panic when the enabled
\* sets hold no algorithm, the Train page otherwise.
StartTraining(new_opened) ==
    \E new_algs \in EnabledAlgs(algset_map) :
        IF HasAlgs(new_algs)
        THEN IF get_scramble(db, new_algs) = {}
             THEN /\ pc' = "panicked"
                  /\ opened' = new_opened
                  /\ UNCHANGED <<page, selected, last_identifiers, last_biggest_index,
                                 algset_map, algs, scramble>>
             ELSE \E new_scramble \in get_scramble(db, new_algs) :
                      EnterTrain(new_algs, new_scramble)
        ELSE /\ opened' = new_opened
             /\ AfterKey
             /\ UNCHANGED <<page, selected, last_identifiers, last_biggest_index,
                            algset_map, algs, scramble>>

\* Mutant of IsStartButton: every identifier without an entry starts.
IsStartButtonAny(identifier) == TRUE

\* The test `*identifier == START_BUTTON_ID`.
IsStartButton(identifier) == identifier = START_BUTTON_ID

SetupKeyEnter(k) ==
    /\ KeyRead(k)
    /\ page = "Setup"
    /\ k \in {"Enter", " "}
    /\ LET new_opened == toggle_selected(opened, selected)
       IN  IF selected # <<>> /\ selected[Len(selected)] \in DOMAIN algset_map
           THEN /\ algset_map' = ToggleEnabled(algset_map, selected[Len(selected)])
                /\ opened' = new_opened
                /\ AfterKey
                /\ UNCHANGED <<page, selected, last_identifiers, last_biggest_index,
                               algs, scramble>>
           ELSE IF selected # <<>> /\ IsStartButton(selected[Len(selected)])
                THEN StartTraining(new_opened)
                ELSE /\ opened' = new_opened
                     /\ AfterKey
                     /\ UNCHANGED <<page, selected, last_identifiers, last_biggest_index,
                                    algset_map, algs, scramble>>

TrainKeyEnter(k) ==
    /\ KeyRead(k)
    /\ page = "Train"
    /\ k \in {"Enter", " "}
    /\ IF get_scramble(db, algs) = {}
       THEN /\ pc' = "panicked"
            /\ UNCHANGED scramble
       ELSE /\ scramble' \in get_scramble(db, algs)
            /\ AfterKey
    /\ UNCHANGED <<page, selected, opened, last_identifiers, last_biggest_index,
                   algset_map, algs>>

\* The arms `_ => {}`: 'q' and the keys the page does not name.
KeyIgnored(k) ==
    /\ KeyRead(k)
    /\ \/ page = "Setup" /\ k \notin {"Up", "k", "Down", "j", "Enter", " "}
       \/ page = "Train" /\ k \notin {"Enter", " "}
    /\ AfterKey
    /\ UNCHANGED <<page, selected, opened, last_identifiers, last_biggest_index,
                   algset_map, algs, scramble>>

handle_key(k) ==
    \/ SetupKeyUp(k)
    \/ SetupKeyDown(k)
    \/ SetupKeyEnter(k)
    \/ TrainKeyEnter(k)
    \/ KeyIgnored(k)

Next ==
    \/ Draw
    \/ NonKeyEvent
    \/ \E k \in KeyCodes : handle_key(k)

Spec == Init /\ [][Next]_vars

(***************************************************************************)
(* The functions of src/db.rs and the two identifier walks of src/app.rs,   *)
(* each applied once to an argument of a bounded set, outside the loop of  *)
(* App::run.                                                               *)
(***************************************************************************)
SeqsUpTo(S, n) == UNION { [1..k -> S] : k \in 0..n }

\* The characters of the lines: moves, separators, parentheses, a comment
\* sign, both apostrophes and a letter that is no move.
LineChars == {"R", "U", "'", "2", " ", "(", ")", "#", "Q", "u2019"}

\* "R U R' # comment", "R Q", "(R U R') U2'", "R  U2 ( Q ) B"
ExampleLines ==
    { <<"R", " ", "U", " ", "R", "'", " ", "#", " ", "c", "o", "m", "m", "e", "n", "t">>,
      <<"R", " ", "Q">>,
      <<"(", "R", " ", "U", " ", "R", "'", ")", " ", "U", "2", "'">>,
      <<"R", " ", " ", "U", "2", " ", "(", " ", "Q", " ", ")", " ", "B">> }

Lines == SeqsUpTo(LineChars, MaxTextLen) \cup ExampleLines

\* The files: of one line each, and three of several lines.
Files ==
    { <<line>> : line \in Lines }
      \cup { << <<"R", " ", "U">>, <<"#", "R">>, <<" ">>, <<"U", "2", "'">> >>,
             << <<"R">>, <<"Q", " ", "U">>, <<"U">> >>,
             << <<"(", ")">>, <<"R", "2">> >> }

TokenChars == {"R", "x", "2", "'", "Q"}

\* The tokens: every spelling from_text accepts and the short strings over
\* TokenChars.
Tokens ==
    { Str(t) : t \in SeqsUpTo(TokenChars, MaxTextLen) }
      \cup { as_text(m) : m \in Movement }
      \cup { as_text(m) \o "'" : m \in Movement }

Loading ==
    /\ db = <<>>
    /\ page = "Setup"
    /\ selected = <<>>
    /\ opened = {}
    /\ last_identifiers = <<>>
    /\ last_biggest_index = 0
    /\ algset_map = EmptyMap
    /\ algs = <<>>
    /\ scramble = ""
    /\ exit = FALSE
    /\ key = NoKey
    /\ page_before = NoKey
    /\ pc = "load"

InitDb ==
    /\ Loading
    /\ ret = NoRet
    /\ \/ \E m \in Movement : call = [fn |-> "inv", arg |-> m]
       \/ \E m \in Movement : call = [fn |-> "as_text", arg |-> m]
       \/ \E text \in Tokens : call = [fn |-> "from_text", arg |-> text]
       \/ \E lines \in Files : call = [fn |-> "load_from", arg |-> lines]
       \/ \E entries \in Catalogs : call = [fn |-> "parse_entries", arg |-> entries]

Returns(fn, value) ==
    /\ pc = "load"
    /\ call.fn = fn
    /\ ret = NoRet
    /\ ret' = value
    /\ UNCHANGED <<db, page, selected, opened, last_identifiers, last_biggest_index,
                   algset_map, algs, scramble, exit, key, page_before, pc, call>>

\* inv, and inv of what inv returned.
CallInv == Returns("inv", [tag |-> "Movement", once |-> inv(call.arg), twice |-> inv(inv(call.arg))])

\* as_text, and from_text of what as_text returned.
CallAsText ==
    Returns("as_text", [tag |-> "Text", text |-> as_text(call.arg), parsed |-> from_text(as_text(call.arg))])

CallFromText == Returns("from_text", [tag |-> "Option", movement |-> from_text(call.arg)])

CallLoadFrom == Returns("load_from", load_from("file", call.arg))

\* parse_entries of App::new on the catalog, then parse_entries of draw on
\* the catalog and the map just built.
CallParseEntries ==
    Returns("parse_entries",
            [tag   |-> "Walks",
             built |-> new_parse_entries(call.arg, 1, <<>>, 0, EmptyMap),
             drawn |-> draw_parse_entries(call.arg, 1, 0,
                          new_parse_entries(call.arg, 1, <<>>, 0, EmptyMap).algset_map)])

NextDb ==
    \/ CallParseEntries
    \/ CallInv
    \/ CallAsText
    \/ CallFromText
    \/ CallLoadFrom

SpecDb == InitDb /\ [][NextDb]_vars

(***************************************************************************)
(* Vocabulary of the properties.                                           *)
(***************************************************************************)
ActivateKeys == {"Enter", " "}

\* The identifier under the cursor; -1 when the cursor is on nothing.
SelectedId == IF selected = <<>> THEN 0 - 1 ELSE selected[Len(selected)]

EnabledIds == {id \in DOMAIN algset_map : algset_map[id].enabled}

\* A key event is being handled in this step, read on the page p.
Handles(keys, p) == pc = "read" /\ page = p /\ key' \in keys

ActivatesStart == Handles(ActivateKeys, "Setup") /\ SelectedId = START_BUTTON_ID

ActivatesLeaf == Handles(ActivateKeys, "Setup") /\ SelectedId \in DOMAIN algset_map

\* Every algorithm of the sets that are enabled now.
EnabledPool ==
    UNION { {AlgSetAt(db, algset_map[id].algset).algs[c] :
                c \in DOMAIN AlgSetAt(db, algset_map[id].algset).algs} :
            id \in EnabledIds }

\* What the tree view shows: the identifier paths of the visible rows, in
\* order.
VisibleRows(open, map) == Flatten(open, Outline(db, map).items, 1, <<>>)

\* The number of positions of the snapshot that refer to the set at ref.
Occurrences(snapshot, ref) == Cardinality({i \in DOMAIN snapshot : snapshot[i] = ref})

(***************************************************************************)
(* C1: the page changes from Setup (Browsing) to Train (Drilling) only in  *)
(* a step that handles an activate key with the cursor on the Start        *)
(* identifier while at least one entry of algset_map is enabled; no other  *)
(* step produces Train.                                                    *)
(***************************************************************************)
C1_TrainOnlyByStart ==
    [][ (page = "Setup" /\ page' = "Train")
            => (ActivatesStart /\ EnabledIds # {}) ]_vars

C1_Witness ==
    /\ page = "Train"
    /\ page_before = "Setup"
    /\ key = "Enter"

(***************************************************************************)
(* C2: activating Start while some set is enabled and the enabled sets     *)
(* hold no algorithm at all is recoverable: the page stays Setup, the      *)
(* algset_map is unchanged and the program does not panic.                 *)
(***************************************************************************)
C2_EmptyPoolRecoverable ==
    [][ (ActivatesStart /\ EnabledIds # {} /\ EnabledPool = {})
            => (pc' # "panicked" /\ page' = "Setup" /\ algset_map' = algset_map) ]_vars

C4_SnapshotIsEnabledSets ==
    [][ (page = "Setup" /\ page' = "Train")
            => /\ \A id \in DOMAIN algset_map :
                    Occurrences(algs', algset_map[id].algset)
                        = IF algset_map[id].enabled THEN 1 ELSE 0
               /\ \A i \in DOMAIN algs' :
                    \E id \in DOMAIN algset_map : algs'[i] = algset_map[id].algset ]_vars

\* Two of the three sets of a catalog were enabled when Start was activated.
C4_Witness ==
    /\ page = "Train"
    /\ page_before = "Setup"
    /\ Len(algs) = 2
    /\ algs[1] # algs[2]
    /\ Cardinality(DOMAIN new_parse_entries(db, 1, <<>>, 0, EmptyMap).algset_map) = 3

(***************************************************************************)
(* C5: for every non-empty sequence of sets whose pool is not empty, every *)
(* string get_scramble can return is, for some algorithm a of the pool,    *)
(* the inverses of a's moves in reverse order, each in canonical notation, *)
(* joined by one space with nothing before or after; a pool holding only   *)
(* [R, U] yields exactly "U' R'".  Checked on every sequence of sets the   *)
(* program can hand to get_scramble in a reachable state.                  *)
(***************************************************************************)
\* The inverses of the moves of a, last move first.
ReverseInverse(a) == [i \in 1..Len(a) |-> inv(a[Len(a) + 1 - i])]

RECURSIVE JoinBySpace(_)
JoinBySpace(moves) ==
    IF moves = <<>>
    THEN ""
    ELSE IF Len(moves) = 1
         THEN as_text(moves[1])
         ELSE as_text(moves[1]) \o " " \o JoinBySpace(Tail(moves))

\* The arguments get_scramble can be called with in the current state.
ScrambleArguments ==
    IF page = "Setup"
    THEN {a \in EnabledAlgs(algset_map) : Len(a) > 0}
    ELSE {algs}

C5_ScrambleIsReverseInverse ==
    \A sets \in ScrambleArguments :
        LET pool == Movements(db, sets, 1)
        IN  /\ \A text \in get_scramble(db, sets) :
                  \E c \in DOMAIN pool : text = JoinBySpace(ReverseInverse(pool[c]))
            /\ pool = << <<"R", "U">> >> => get_scramble(db, sets) = {"U' R'"}

C5_Witness ==
    /\ page = "Train"
    /\ Movements(db, algs, 1) = << <<"R", "U">> >>
    /\ scramble = "U' R'"

(***************************************************************************)
(* C6: in the catalog of one Group OLL holding one Leaf OLL1 with the one  *)
(* algorithm R U R' U' R' F R F', once the leaf has been activated,        *)
(* activating Start enters Train, and the scramble of the Train page is    *)
(* exactly "F R' F' R U R U' R'".                                          *)
(***************************************************************************)
C6_EndToEnd ==
    [][ db = OLLCatalog
            => /\ (ActivatesStart /\ EnabledIds # {}) => page' = "Train"
               /\ page' = "Train" => scramble' = "F R' F' R U R U' R'" ]_vars

C6_Witness ==
    /\ db = OLLCatalog
    /\ page = "Train"
    /\ page_before = "Setup"
    /\ key = "Enter"
    /\ scramble = "F R' F' R U R U' R'"

(***************************************************************************)
(* C7: activating a Leaf identifier on the Setup page flips the enabled    *)
(* flag of exactly that entry: the keys of algset_map, the set every entry *)
(* refers to and every other flag are unchanged.  The cursor and the page  *)
(* stay, so the next activate is on the same leaf, and flipping that entry *)
(* once more gives back the algset_map from before the step.               *)
(***************************************************************************)
C7_ToggleFlipsOneEntry ==
    [][ ActivatesLeaf
            => /\ DOMAIN algset_map' = DOMAIN algset_map
               /\ \A id \in DOMAIN algset_map :
                    /\ algset_map'[id].algset = algset_map[id].algset
                    /\ algset_map'[id].enabled
                         = IF id = SelectedId
                           THEN ~algset_map[id].enabled
                           ELSE algset_map[id].enabled
               /\ page' = "Setup"
               /\ selected' = selected
               /\ ToggleEnabled(algset_map', SelectedId) = algset_map ]_vars

\* The leaf under the cursor has just been switched off again, next to an
\* entry that is still enabled.
C7_Witness ==
    /\ page = "Setup"
    /\ page_before = "Setup"
    /\ key = "Enter"
    /\ SelectedId \in DOMAIN algset_map
    /\ ~algset_map[SelectedId].enabled
    /\ EnabledIds # {}

(***************************************************************************)
(* C8: on the Train page an activate key replaces the scramble by the      *)
(* reverse-inverse text of some algorithm of the snapshot, keeps the page  *)
(* and does not panic; no step taken on the Train page changes the         *)
(* snapshot or leaves the page.                                            *)
(***************************************************************************)
C8_AdvanceRegenerates ==
    [][ /\ Handles(ActivateKeys, "Train")
            => /\ \E c \in DOMAIN Movements(db, algs, 1) :
                    scramble' = JoinBySpace(ReverseInverse(Movements(db, algs, 1)[c]))
               /\ pc' # "panicked"
        /\ page = "Train" => (page' = "Train" /\ algs' = algs) ]_vars

\* An advance has just drawn the second algorithm of a pool of three.
C8_Witness ==
    /\ page = "Train"
    /\ page_before = "Train"
    /\ key = "Enter"
    /\ Len(Movements(db, algs, 1)) = 3
    /\ scramble = JoinBySpace(ReverseInverse(Movements(db, algs, 1)[2]))

(***************************************************************************)
(* C9: a 'q' key on either page sets exit and the loop ends after the      *)
(* handler (no step is taken once exit is set, so exit is never cleared);  *)
(* the 'q' key changes neither the page, the cursor, the algset_map, the   *)
(* snapshot nor the scramble.                                              *)
(***************************************************************************)
C9_QuitTerminates ==
    [][ /\ ~exit
        /\ exit => exit'
        /\ (pc = "read" /\ key' = "q")
              => /\ exit' /\ pc' = "done"
                 /\ UNCHANGED <<page, selected, opened, algset_map, algs, scramble>> ]_vars

C9_Witness ==
    /\ exit
    /\ pc = "done"
    /\ key = "q"
    /\ page = "Train"

(***************************************************************************)
(* C10: the events outside the transition table.                           *)
(***************************************************************************)
\* An event the transition table does not list for the current page: an
\* activate on an identifier that has no entry and is not Start, a key no
\* arm names, a cursor key on the Train page, or an event that is no key.
UnlistedEvent ==
    \/ Handles(ActivateKeys, "Setup")
         /\ SelectedId \notin DOMAIN algset_map /\ SelectedId # START_BUTTON_ID
    \/ Handles(KeyCodes \ (ActivateKeys \cup {"Up", "k", "Down", "j", "q"}), "Setup")
    \/ Handles(KeyCodes \ (ActivateKeys \cup {"q"}), "Train")
    \/ pc = "read" /\ key' = NoKey

\* C10 as claimed: every unlisted event leaves the page, the tree cursor and
\* the rows the tree view shows, the algset_map, the snapshot, the scramble
\* and the exit flag unchanged and reaches no error state.
C10_UnlistedIsNoOp ==
    [][ UnlistedEvent
            => /\ UNCHANGED <<page, selected, algset_map, algs, scramble, exit>>
               /\ VisibleRows(opened', algset_map') = VisibleRows(opened, algset_map)
               /\ pc' # "panicked" ]_vars

\* C10 as amended: every unlisted event leaves the page, the cursor, the
\* algset_map, the snapshot, the scramble and the exit flag unchanged and
\* reaches no error state; an activate on the Setup page on an identifier
\* that has no entry and is not Start flips the open mark of the item under
\* the cursor (the rows of a Group appear or disappear) and every other
\* unlisted event leaves the tree view unchanged as well.
C10_UnlistedOnlyTogglesOpen ==
    [][ UnlistedEvent
            => /\ UNCHANGED <<page, selected, algset_map, algs, scramble, exit>>
               /\ pc' # "panicked"
               /\ IF Handles(ActivateKeys, "Setup") /\ selected # <<>>
                  THEN /\ selected \in opened => opened' = opened \ {selected}
                       /\ selected \notin opened => opened' = opened \cup {selected}
                  ELSE opened' = opened ]_vars

\* A Group has just been collapsed again by a second activate: its child row
\* was shown at the last render and is no longer among the rows.
C10_Witness ==
    /\ page = "Setup"
    /\ page_before = "Setup"
    /\ key = "Enter"
    /\ selected # <<>>
    /\ SelectedId \notin DOMAIN algset_map
    /\ SelectedId # START_BUTTON_ID
    /\ selected \notin opened
    /\ \E i \in DOMAIN last_identifiers :
            /\ Len(last_identifiers[i]) = Len(selected) + 1
            /\ SubSeq(last_identifiers[i], 1, Len(selected)) = selected
    /\ Len(VisibleRows(opened, algset_map)) < Len(last_identifiers)

(***************************************************************************)
(* Vocabulary of the properties of src/db.rs.                              *)
(***************************************************************************)
\* A call of fn has returned.
Returned(fn) == call.fn = fn /\ ret # NoRet

\* The k-th smallest number of a set of numbers.
Nth(S, k) == CHOOSE i \in S : Cardinality({j \in S : j < i}) = k - 1

\* The positions of a line before its first '#'.
BeforeComment(line) == {i \in DOMAIN line : \A j \in 1..i : line[j] # "#"}

\* Those of them that hold no parenthesis.
Kept(line) == {i \in BeforeComment(line) : line[i] \notin {"(", ")"}}

\* The characters at the kept positions, the apostrophe in its standard form.
Cleaned(line) ==
    [k \in 1..Cardinality(Kept(line)) |->
        IF line[Nth(Kept(line), k)] = "u2019" THEN "'" ELSE line[Nth(Kept(line), k)]]

\* Where a token starts in a text: at a character that is no space and
\* follows a space or nothing.
TokenStarts(c) == {i \in DOMAIN c : c[i] # " " /\ (i = 1 \/ c[i - 1] = " ")}

\* The token that starts at i: up to the next space or the end.
TokenAt(c, i) ==
    SubSeq(c, i, CHOOSE j \in i..Len(c) :
                    /\ \A n \in i..j : c[n] # " "
                    /\ (j = Len(c) \/ c[j + 1] = " "))

\* The tokens of a line, as strings, in order.
LineTokens(line) ==
    [k \in 1..Cardinality(TokenStarts(Cleaned(line))) |->
        Str(TokenAt(Cleaned(line), Nth(TokenStarts(Cleaned(line)), k)))]

\* The tokens of a line that are no move.
BadTokens(line) == {k \in DOMAIN LineTokens(line) : from_text(LineTokens(line)[k]) = "None"}

\* The line is passed over by the loader: only spaces before its comment.
Skipped(line) == \A i \in BeforeComment(line) : line[i] = " "

\* load_from has returned from a file of the single line `line`.
LoadedLine(line) == Returned("load_from") /\ call.arg = <<line>>

LineRURComment ==
    <<"R", " ", "U", " ", "R", "'", " ", "#", " ", "c", "o", "m", "m", "e", "n", "t">>

LineRQ == <<"R", " ", "Q">>

\* C11: a line that is not passed over is parsed as follows: the comment
\* from the first '#' on and every parenthesis are removed, the rest is
\* split at the spaces and the empty pieces dropped; when every token is a
\* move the result is the moves of the tokens in order, otherwise the load
\* fails with InvalidMovement of the first token that is no move and stores
\* nothing.  "R U R' # comment" gives [R, U, RP]; "R Q" fails with
\* InvalidMovement("Q").
C11_ParseLine ==
    /\ \A line \in Lines :
          LoadedLine(line) /\ ~Skipped(line) =>
              IF BadTokens(line) = {}
              THEN /\ ret.tag = "Ok"
                   /\ ret.value.algs =
                        << [k \in DOMAIN LineTokens(line) |-> from_text(LineTokens(line)[k])] >>
              ELSE ret = InvalidMovement(LineTokens(line)[Nth(BadTokens(line), 1)])
    /\ LoadedLine(LineRURComment) => ret = Ok(AlgSet("file", << <<"R", "U", "RP">> >>))
    /\ LoadedLine(LineRQ) => ret = InvalidMovement("Q")

\* The line "R U R' # comment" has been loaded and three moves are stored.
C11_Witness ==
    /\ LoadedLine(LineRURComment)
    /\ ret.tag = "Ok"
    /\ Len(ret.value.algs[1]) = 3


\* The three kinds of the 21 values of Movement.
NormalMoves == {"R", "U", "F", "L", "B", "X", "Y"}

PrimeMoves == {"RP", "UP", "FP", "LP", "BP", "XP", "YP"}

DoubleMoves == {"R2", "U2", "F2", "L2", "B2", "X2", "Y2"}

\* C12: the vocabulary has 21 moves; the inverse of the inverse of a move is
\* the move; a double move is its own inverse and no other move is.
C12_InverseInvolution ==
    /\ Movement = NormalMoves \cup PrimeMoves \cup DoubleMoves
    /\ Cardinality(Movement) = 21
    /\ Returned("inv") =>
          /\ ret.twice = call.arg
          /\ ret.once \in Movement
          /\ (ret.once = call.arg) <=> (call.arg \in DoubleMoves)

\* inv has been applied to a prime move and has returned its normal move.
C12_Witness ==
    /\ Returned("inv")
    /\ call.arg = "RP"
    /\ ret.once = "R"
    /\ ret.twice = "RP"

\* The spellings of the vocabulary: the canonical token of every move and
\* the token of every double move followed by an apostrophe.
Spellings ==
    { as_text(m) : m \in Movement } \cup { as_text(d) \o "'" : d \in DoubleMoves }

\* C13: a move rendered and parsed is the move again; the token of a double
\* move followed by an apostrophe parses to that double move, as the plain
\* token does; a token that is no spelling of the vocabulary does not parse.
C13_ParseRenderRoundTrip ==
    /\ Returned("as_text") =>
          /\ ret.parsed = call.arg
          /\ as_text(ret.parsed) = ret.text
    /\ Returned("from_text") =>
          /\ \A d \in DoubleMoves :
                call.arg \in {as_text(d), as_text(d) \o "'"} => ret.movement = d
          /\ call.arg \notin Spellings => ret.movement = "None"
          /\ call.arg \in Spellings => ret.movement \in Movement

\* from_text has been applied to "R2'" and has returned the double move R2.
C13_Witness ==
    /\ Returned("from_text")
    /\ call.arg = "R2'"
    /\ ret.movement = "R2"


(***************************************************************************)
(* Vocabulary of the properties of the identifiers.                        *)
(***************************************************************************)
\* The identifier of the entry that refers to the set at ref.
IdOf(ref) == CHOOSE id \in DOMAIN algset_map : algset_map[id].algset = ref

\* The nodes of a catalog, each as its path of indexes.
RECURSIVE NodePaths(_)
NodePaths(entries) ==
    UNION { {<<i>>} \cup (IF entries[i].tag = "Group"
                          THEN {<<i>> \o p : p \in NodePaths(entries[i].entries)}
                          ELSE {}) : i \in DOMAIN entries }

RECURSIVE NodeAt(_, _)
NodeAt(entries, path) ==
    IF Len(path) = 1
    THEN entries[path[1]]
    ELSE NodeAt(entries[path[1]].entries, Tail(path))

GroupPaths(entries) == {p \in NodePaths(entries) : NodeAt(entries, p).tag = "Group"}

LeafPaths(entries) == {p \in NodePaths(entries) : NodeAt(entries, p).tag = "Algs"}

\* p is an ancestor of q.
Ancestor(p, q) == Len(p) < Len(q) /\ SubSeq(q, 1, Len(p)) = p

\* p is visited before q in pre-order.
Before(p, q) ==
    \/ Ancestor(p, q)
    \/ \E n \in 1..Min(Len(p), Len(q)) :
          /\ SubSeq(p, 1, n - 1) = SubSeq(q, 1, n - 1)
          /\ p[n] < q[n]

\* The number of nodes visited before p.
Rank(entries, p) == Cardinality({q \in NodePaths(entries) : Before(q, p)})

\* The number of groups visited and left before p is visited.
GroupsLeft(entries, p) ==
    Cardinality({q \in GroupPaths(entries) : Before(q, p) /\ ~Ancestor(q, p)})

\* The item of an outline at a path of indexes.
RECURSIVE ItemAt(_, _)
ItemAt(items, path) ==
    IF Len(path) = 1
    THEN items[path[1]]
    ELSE ItemAt(items[path[1]].children, Tail(path))

\* The identifier the walk of draw has given to the node p.
DrawnId(p) == ItemAt(ret.drawn.items, p).identifier

\* The identifiers under which the walk of App::new has entered the leaf p.
BuiltIds(p) == {id \in DOMAIN ret.built.algset_map : ret.built.algset_map[id].algset = p}

\* C14: the sets collected when Start is activated are in the order of the
\* catalog, that is by ascending identifier.
C14_SnapshotInCatalogOrder ==
    [][ (page = "Setup" /\ page' = "Train")
            => \A i, j \in DOMAIN algs' : i < j => IdOf(algs'[i]) < IdOf(algs'[j]) ]_vars

\* C15 as stated: every node takes one identifier: the node visited k-th in
\* pre-order, counting from 0, has identifier k in both walks, and the
\* counter after each walk is the number of nodes.
C15_OneIdPerNode ==
    Returned("parse_entries") =>
        /\ \A p \in NodePaths(call.arg) : DrawnId(p) = Rank(call.arg, p)
        /\ \A p \in LeafPaths(call.arg) : BuiltIds(p) = {Rank(call.arg, p)}
        /\ ret.built.id = Cardinality(NodePaths(call.arg))
        /\ ret.drawn.id = Cardinality(NodePaths(call.arg))

\* C15, amended: a Leaf takes one identifier and a Group two, one before and
\* one after its children: the identifier of a node is the number of nodes
\* visited before it plus the number of groups left before it, in both
\* walks; identifiers grow in pre-order, so a Group's is smaller than those
\* of its descendants; the counter after each walk is the number of leaves
\* plus twice the number of groups.
C15_PreorderIds ==
    Returned("parse_entries") =>
        /\ \A p \in NodePaths(call.arg) :
              DrawnId(p) = Rank(call.arg, p) + GroupsLeft(call.arg, p)
        /\ \A p \in LeafPaths(call.arg) :
              BuiltIds(p) = {Rank(call.arg, p) + GroupsLeft(call.arg, p)}
        /\ \A p, q \in NodePaths(call.arg) : Before(p, q) => DrawnId(p) < DrawnId(q)
        /\ ret.built.id = Cardinality(LeafPaths(call.arg)) + 2 * Cardinality(GroupPaths(call.arg))
        /\ ret.drawn.id = ret.built.id

\* The walks have been applied to a catalog of a group that holds a file
\* and a file after the group: the identifiers are 0, 1 and 3.
C15_Witness ==
    /\ Returned("parse_entries")
    /\ Len(call.arg) = 2
    /\ call.arg[1].tag = "Group"
    /\ Len(call.arg[1].entries) = 1
    /\ call.arg[2].tag = "Algs"
    /\ DOMAIN ret.built.algset_map = {1, 3}
    /\ ret.built.id = 4

\* C16: the map App::new builds has one entry for each Leaf and none for a
\* Group: each leaf is entered under exactly one identifier, the one it is
\* drawn with; no identifier of a Group is a key; there are as many keys as
\* leaves; every entry refers to the set of a leaf, and the entry under the
\* identifier of a leaf refers to the set of that leaf.
C16_OneEntryPerLeaf ==
    Returned("parse_entries") =>
        /\ \A p \in LeafPaths(call.arg) : BuiltIds(p) = {DrawnId(p)}
        /\ \A p, q \in LeafPaths(call.arg) : DrawnId(p) = DrawnId(q) => p = q
        /\ \A g \in GroupPaths(call.arg) : DrawnId(g) \notin DOMAIN ret.built.algset_map
        /\ Cardinality(DOMAIN ret.built.algset_map) = Cardinality(LeafPaths(call.arg))
        /\ \A id \in DOMAIN ret.built.algset_map :
              ret.built.algset_map[id].algset \in LeafPaths(call.arg)
        /\ \A p \in LeafPaths(call.arg) :
              /\ DrawnId(p) \in DOMAIN ret.built.algset_map
              /\ ret.built.algset_map[DrawnId(p)].algset = p
              /\ AlgSetAt(call.arg, ret.built.algset_map[DrawnId(p)].algset)
                    = NodeAt(call.arg, p).algset

\* The map has been built for a catalog of a group that holds two files.
C16_Witness ==
    /\ Returned("parse_entries")
    /\ Cardinality(GroupPaths(call.arg)) = 1
    /\ Cardinality(LeafPaths(call.arg)) = 2
    /\ \A p \in LeafPaths(call.arg) : Len(p) = 2
    /\ DOMAIN ret.built.algset_map = {1, 2}

\* The identifier counter after the walk of App::new over the catalog.
Counter == new_parse_entries(db, 1, <<>>, 0, EmptyMap).id

\* C17: in a catalog whose counter stays below START_BUTTON_ID, the
\* identifier of Start is none of the identifiers the walk assigns and no
\* key of the algset_map; activating Start flips no enabled flag, and
\* activating a Leaf flips a flag and does not start the training.
C17_StartIsDisjoint ==
    [][ (Counter < START_BUTTON_ID /\ page = "Setup")
            => /\ START_BUTTON_ID \notin 0..(Counter - 1)
               /\ START_BUTTON_ID \notin DOMAIN algset_map
               /\ ActivatesStart => page' = "Train" \/ algset_map' = algset_map
               /\ ActivatesLeaf => page' = "Setup" /\ algset_map' # algset_map
               /\ ~(ActivatesStart /\ ActivatesLeaf) ]_vars

\* Start has been activated in a catalog with a group, after a leaf of the
\* group had been activated.
C17_Witness ==
    /\ page = "Train"
    /\ page_before = "Setup"
    /\ key = "Enter"
    /\ GroupPaths(db) # {}
    /\ \A i \in DOMAIN algs : Len(algs[i]) = 2


\* C18: every algorithm load_from stores has at least one move; a line of
\* parentheses and spaces only stores none.
C18_StoredAlgsNonEmpty ==
    (Returned("load_from") /\ ret.tag = "Ok") =>
        \A n \in DOMAIN ret.value.algs : Len(ret.value.algs[n]) >= 1

\* The text of the scramble for the algorithm a.
ScrambleFor(a) == JoinBySpace(ReverseInverse(a))

\* Every algorithm of the sets of a sequence of sets.
PoolOf(sets) == {Movements(db, sets, 1)[c] : c \in DOMAIN Movements(db, sets, 1)}

C20_DrawAgreesWithMap ==
    (pc = "draw" /\ page = "Setup") =>
        /\ Outline(db, algset_map).ok
        /\ \A p \in LeafPaths(db) :
              LET item == ItemAt(Outline(db, algset_map).items, p)
              IN  /\ item.identifier \in DOMAIN algset_map
                  /\ algset_map[item.identifier].algset = p
                  /\ item.text = IF algset_map[IdOf(p)].enabled
                                 THEN "|-- " \o NodeAt(db, p).name
                                 ELSE NodeAt(db, p).name

\* The Setup page is about to be drawn with a group open in which one file
\* is enabled, while another file is not.
C20_Witness ==
    /\ pc = "draw"
    /\ page = "Setup"
    /\ \E p \in LeafPaths(db) : Len(p) = 2 /\ algset_map[IdOf(p)].enabled
    /\ \E p \in LeafPaths(db) : ~algset_map[IdOf(p)].enabled
    /\ opened # {}


====
